---- MODULE Spec2Model ----
(***************************************************************************)
(* A model of zulip_bot-vc: the deletion scheduler (utils/scheduling.py),  *)
(* the client's delete call (core/client.py), the event parser             *)
(* (core/models.py) and the dispatcher (core/dispatcher.py).               *)
(*                                                                         *)
(* The bot runs under trio: tasks are cooperative and switch only at an    *)
(* await.  Every program counter value below is an await of the sweep      *)
(* task, so the other task (the event loop, whose handlers call            *)
(* schedule_deletion) may run between any two steps of the sweep.          *)
(* schedule_deletion itself holds no await: it is one atomic step.         *)
(*                                                                         *)
(* Time is counted in minutes, the unit of delete_after_minutes.           *)
(***************************************************************************)
EXTENDS Integers, Sequences, FiniteSets, TLC

\* ------------------------------------------------------------------ bounds
MaxMsg == 2
MaxDelay == 1
MaxTime == 1
MaxSchedules == 3
MaxFeatures == 3
MaxId == 2
MaxPolls == 3
MaxEventId == 2
MaxBatch == 2
MaxSends == 2

\* ------------------------------------------------------- program constants
SLEEP_SECONDS == 60
SECONDS_PER_MINUTE == 60
RATE_LIMIT_DEFAULT == 60
ERROR_BACKOFF == 5
EXCEPTION_BACKOFF == 10
max_retries == 3

MsgIds == 1..MaxMsg
Delays == 0..MaxDelay
SleepMinutes == SLEEP_SECONDS \div SECONDS_PER_MINUTE

VARIABLES
    \* DeletionScheduler
    clock,        \* datetime.now(timezone.utc), in minutes
    tasks,        \* self._tasks: the dict, as its items in insertion order
    lock,         \* self._lock: "free" or the task holding it
    spc,          \* where the task running DeletionScheduler.run stands
    now,          \* _run_once: the local now
    to_delete,    \* _run_once: the local to_delete
    idx,          \* _run_once: position of the for loop in to_delete
    nsched,       \* the number of schedule_deletion calls made so far
    \* what has been observed of the scheduler (history, read by the properties)
    reqs,         \* per id: delete requests issued since the last schedule call for it
    wrote,        \* per id: the due time written by a schedule call made while the
                  \* current sweep was past its snapshot (as a set: empty if none)
    addedMid,     \* per id: the current entry was written while a sweep was in progress
    resched,      \* per id: the current entry overwrote an entry with an earlier due time
    early,        \* the last delete request was for a rescheduled entry not yet due
    failed,       \* ids whose delete request failed during the current sweep
    sweepRaised,  \* the current (or last) _run_once ended by an exception
    prevRaised,   \* the _run_once before the current one ended by an exception
    \* Dispatcher
    features,     \* self._features: the registered handlers, in registration order
    dpc,          \* where dispatch_event stands: "idle", "handles", "handle", "crashed"
    fidx,         \* dispatch_event: position of the for loop in self._features
    msg_event,    \* dispatch_event: the local msg_event
    trace,        \* the handler calls made for the current event, in order
    logged,       \* positions whose failure logger.exception recorded for this event
    dstatus,      \* how the last dispatch_event call ended
    \* ConfigManager, the feature handlers and the platform
    config,       \* ConfigManager._config
    pending,      \* AnonymousPostingFeature._pending, per sender id
    next_id,      \* the id the platform gives to the next message
    effects,      \* the client, scheduler and config calls made for the current event
    looked,       \* what get_user_by_id returned for the current event, if called
    \* ZulipTrioClient.events
    epc,            \* where the generator is: "poll", "for", "yield", "sleep"
    last_event_id,  \* the cursor the next poll is made with
    poll_res,       \* the response of the latest poll
    batch,          \* res.get("events", []) of the latest successful poll
    bidx,           \* the position of the for loop in batch
    yielded,        \* the events yielded from batch so far
    seen,           \* the ids of all events yielded so far
    backoff,        \* the seconds of the trio.sleep the generator is in
    npolls,         \* polls made so far
    \* ZulipTrioClient.send_private_message / send_stream_message
    snd_pc,         \* "idle", "call", "sleep", "returned", "raised"
    snd_fn,         \* which of the two functions is running
    attempt,        \* the loop variable of "for attempt in range(max_retries)"
    snd_hist,       \* the responses of this call's send attempts
    snd_ret,        \* what the call returned
    nsends          \* calls made so far

schedVars == <<clock, tasks, lock, spc, now, to_delete, idx, nsched>>
histVars == <<reqs, wrote, addedMid, resched, early, failed, sweepRaised, prevRaised>>
dispVars == <<features, dpc, fidx, msg_event, trace, logged, dstatus>>
botVars == <<config, pending, next_id, effects, looked>>
evVars == <<epc, last_event_id, poll_res, batch, bidx, yielded, seen, backoff, npolls>>
sendVars == <<snd_pc, snd_fn, attempt, snd_hist, snd_ret, nsends>>
clientVars == <<evVars, sendVars>>
vars == <<schedVars, histVars, dispVars, botVars, clientVars>>

\* ------------------------------------------------------ the dict self._tasks
\* A Python dict keeps insertion order: assigning to a key that is present
\* keeps its place, a new key goes last, pop removes the key.
Keys(t) == {t[i].message_id : i \in 1..Len(t)}

InTable(t, m) == m \in Keys(t)

IndexOf(t, m) == CHOOSE i \in 1..Len(t) : t[i].message_id = m

DueOf(t, m) == t[IndexOf(t, m)].delete_at

\* An entry that also keeps a copy of what it is about.
ScheduledDeletion_WithContent(m, at) ==
    [message_id |-> m, delete_at |-> at, content |-> <<"h", "i">>]

ScheduledDeletion(m, at) == [message_id |-> m, delete_at |-> at]

\* A table that appends on every write, whether the key is present or not.
DictSet_Append(t, m, e) == Append(t, e)

DictSet(t, m, e) ==
    IF InTable(t, m) THEN [t EXCEPT ![IndexOf(t, m)] = e] ELSE Append(t, e)

DictPop(t, m) == SelectSeq(t, LAMBDA e : e.message_id # m)

\* A snapshot that takes every entry of the table, due or not.
DueIds_All(t, n) == [i \in 1..Len(t) |-> t[i].message_id]

\* _run_once, the loop under the first lock: the ids whose delete_at <= now,
\* in the order of the dict.
RECURSIVE DueIds(_, _)
DueIds(t, n) ==
    IF t = <<>> THEN <<>>
    ELSE (IF Head(t).delete_at <= n THEN <<Head(t).message_id>> ELSE <<>>)
         \o DueIds(Tail(t), n)

\* ZulipTrioClient.delete_message: what the sweep sees of one delete call.
\* The platform answers "success" or an error; the underlying call may also
\* raise, and delete_message catches nothing.
Responses == {"success", "error", "exception"}

delete_message(resp) ==
    CASE resp = "success" -> "true"
      [] resp = "error" -> "false"
      [] OTHER -> "raise"

Cur == to_delete[idx]

SweepInProgress == spc \in {"call", "inflight", "pop_acquire", "pop_locked"}

\* After the body of one iteration (or after the snapshot): the next
\* iteration's delete call, or _run_once returns and run() sleeps.
NextPc(seq, i) == IF i < Len(seq) THEN "call" ELSE "sleep"

\* ------------------------------------------------------ Python str
\* A str is a sequence of one-character strings.
NL == "\n"
Whitespace == {" ", NL}

Uppers == <<"A", "B", "C", "D", "E", "F", "G", "H", "I", "J", "K", "L", "M",
            "N", "O", "P", "Q", "R", "S", "T", "U", "V", "W", "X", "Y", "Z">>
Lowers == <<"a", "b", "c", "d", "e", "f", "g", "h", "i", "j", "k", "l", "m",
            "n", "o", "p", "q", "r", "s", "t", "u", "v", "w", "x", "y", "z">>

LowerChar(c) ==
    IF \E i \in 1..Len(Uppers) : Uppers[i] = c
    THEN Lowers[CHOOSE i \in 1..Len(Uppers) : Uppers[i] = c]
    ELSE c

\* str.lower()
lower(s) == [i \in 1..Len(s) |-> LowerChar(s[i])]

RECURSIVE lstrip(_)
lstrip(s) == IF s # <<>> /\ Head(s) \in Whitespace THEN lstrip(Tail(s)) ELSE s

RECURSIVE rstrip(_)
rstrip(s) ==
    IF s # <<>> /\ s[Len(s)] \in Whitespace THEN rstrip(SubSeq(s, 1, Len(s) - 1)) ELSE s

\* str.strip()
strip(s) == rstrip(lstrip(s))

\* str.startswith(prefix)
startswith(s, prefix) == Len(s) >= Len(prefix) /\ SubSeq(s, 1, Len(prefix)) = prefix

\* The position of the first character of s that is in the set seps, or
\* Len(s) + 1 when there is none.
RECURSIVE FindFirst(_, _, _)
FindFirst(s, seps, i) ==
    IF i > Len(s) \/ s[i] \in seps THEN i ELSE FindFirst(s, seps, i + 1)

\* str.split(): the maximal runs of non-whitespace characters.
RECURSIVE split(_)
split(s) ==
    LET t == lstrip(s) IN
    IF t = <<>> THEN <<>>
    ELSE LET e == FindFirst(t, Whitespace, 1) IN
         <<SubSeq(t, 1, e - 1)>> \o split(SubSeq(t, e, Len(t)))

\* str.splitlines(): cut at each line break; no empty last line.
RECURSIVE splitlines(_)
splitlines(s) ==
    IF s = <<>> THEN <<>>
    ELSE LET e == FindFirst(s, {NL}, 1) IN
         <<SubSeq(s, 1, e - 1)>> \o splitlines(SubSeq(s, e + 1, Len(s)))

\* "\n".join(lines)
RECURSIVE join(_)
join(lines) ==
    IF lines = <<>> THEN <<>>
    ELSE IF Len(lines) = 1 THEN lines[1]
    ELSE lines[1] \o <<NL>> \o join(Tail(lines))

\* utils/matching.py
normalize_phrase(s) == lower(strip(s))

\* ------------------------------------------------------ core/models.py
\* A raw event is a dict: a record whose fields may be absent.  Python's
\* None is NoneStr where a string is expected and NoneInt where an integer is.
\* Text that the handlers trim, lower-case, split or compare (content, stream
\* and topic names) is a sequence of one-character strings; None in such a
\* field is NoneText, which is no such sequence.
NoneStr == "<None>"
NoneInt == -1
NoneText == <<NoneStr>>

\* dict.get(key, default)
Get(d, k, default) == IF k \in DOMAIN d THEN d[k] ELSE default

Restrict(r, D) == [k \in D |-> r[k]]

\* A value of the "message" field that is not a dict.
NonDict == [nondict |-> TRUE]

IsDict(v) == "nondict" \notin DOMAIN v

MsgFields == {"type", "id", "sender_id", "sender_email", "content",
              "display_recipient", "subject", "is_me_message"}

FullMessages ==
    [type : {"private", "stream", "huddle"}, id : {1}, sender_id : {7},
     sender_email : {"user@example.org"}, content : {<<"h", "i">>, <<>>},
     display_recipient : {<<"g">>}, subject : {<<"u">>},
     is_me_message : {FALSE}]

FieldSets ==
    {MsgFields, MsgFields \ {"content"}, MsgFields \ {"type"},
     MsgFields \ {"display_recipient", "subject"}, MsgFields \ {"is_me_message"}}

RawMessages == {Restrict(r, D) : r \in FullMessages, D \in FieldSets} \cup {NonDict}

RawEvents ==
    {[type |-> "heartbeat"], [id |-> 0], [type |-> "message"]}
    \cup {[type |-> "message", message |-> m] : m \in RawMessages}

NoEvent == [none |-> TRUE]
NoResponse == [none |-> TRUE]
ParseRaises == [raises |-> "AttributeError"]

\* A parser that keeps what msg.get("content") returns.
MessageEvent_RawContent(msg, msg_type, event) ==
    [id |-> Get(msg, "id", NoneInt),
     sender_id |-> Get(msg, "sender_id", NoneInt),
     sender_email |-> Get(msg, "sender_email", NoneStr),
     content |-> Get(msg, "content", NoneText),
     message_type |-> msg_type,
     stream |-> IF msg_type = "stream" THEN Get(msg, "display_recipient", NoneText)
                ELSE NoneText,
     topic |-> IF msg_type = "stream" THEN Get(msg, "subject", NoneText) ELSE NoneText,
     is_me_message |-> Get(msg, "is_me_message", FALSE),
     raw_event |-> event]

MessageEvent(msg, msg_type, event) ==
    [id |-> Get(msg, "id", NoneInt),
     sender_id |-> Get(msg, "sender_id", NoneInt),
     sender_email |-> Get(msg, "sender_email", NoneStr),
     content |-> LET c == Get(msg, "content", NoneText) IN
                 IF c \in {NoneText, <<>>} THEN <<>> ELSE c,
     message_type |-> msg_type,
     stream |-> IF msg_type = "stream" THEN Get(msg, "display_recipient", NoneText)
                ELSE NoneText,
     topic |-> IF msg_type = "stream" THEN Get(msg, "subject", NoneText) ELSE NoneText,
     is_me_message |-> Get(msg, "is_me_message", FALSE),
     raw_event |-> event]

\* A parser that takes the nested type as it comes, without the test of
\* lines 49-50.
parse_message_event_AnyType(event) ==
    IF Get(event, "type", NoneStr) # "message" THEN NoEvent
    ELSE LET msg == Get(event, "message", <<>>) IN
         IF ~IsDict(msg) THEN ParseRaises
         ELSE MessageEvent(msg, Get(msg, "type", NoneStr), event)

parse_message_event(event) ==
    IF Get(event, "type", NoneStr) # "message" THEN NoEvent
    ELSE LET msg == Get(event, "message", <<>>) IN
         IF ~IsDict(msg) THEN ParseRaises
         ELSE LET msg_type == Get(msg, "type", NoneStr) IN
              IF msg_type \notin {"private", "stream"} THEN NoEvent
              ELSE MessageEvent(msg, msg_type, event)

\* --------------------------------------------------------------------- Init
\* ------------------------------------------------------ config.py
\* A dict with string keys is a function; setting a key may add it.
SetItem(d, k, v) == [x \in DOMAIN d \cup {k} |-> IF x = k THEN v ELSE d[x]]

\* dict.setdefault(key, default), as the dict it leaves behind
SetDefault(d, k, v) == IF k \in DOMAIN d THEN d ELSE SetItem(d, k, v)

\* The defaults the handlers fall back on when a key is absent.
ANONYMOUS == <<"a", "n", "o", "n", "y", "m", "o", "u", "s">>
GENERAL == <<"g", "e", "n", "e", "r", "a", "l">>
DELETE_AFTER_MINUTES == 7 * 24 * 60

\* Names of streams and topics, and the phrase of the watch rule.
STREAM_A == <<"a">>
STREAM_B == <<"b">>
TOPIC_T == <<"t">>
ROOM == <<"r">>
PHRASE == <<"H", "i">>

WatchRule(stream, topic, phrase, target_stream) ==
    [stream |-> stream, topic |-> topic, phrase |-> phrase,
     target_stream |-> target_stream]

\* What ConfigManager.load() may have returned at startup: the two sections
\* are always there (load merges the file over DEFAULT_CONFIG), their keys
\* and the rules' keys are whatever the file holds.
ConfigFiles ==
    {[anonymous_posting |->
          [enabled |-> TRUE, target_stream |-> ANONYMOUS, target_topic |-> GENERAL,
           delete_after_minutes |-> DELETE_AFTER_MINUTES],
      private_access |->
          [enabled |-> TRUE,
           watch_rules |-> <<WatchRule(STREAM_A, TOPIC_T, PHRASE, ROOM)>>]],
     [anonymous_posting |-> [enabled |-> FALSE],
      private_access |->
          [enabled |-> FALSE,
           watch_rules |-> <<WatchRule(STREAM_A, TOPIC_T, PHRASE, ROOM)>>]],
     [anonymous_posting |-> [enabled |-> TRUE, delete_after_minutes |-> 5],
      private_access |->
          [enabled |-> TRUE,
           watch_rules |-> <<[stream |-> STREAM_A, topic |-> TOPIC_T, phrase |-> PHRASE]>>]]}

\* ------------------------------------------------------ the platform
UserIds == {7, 8}

\* get_user_by_id: a user record, None, or the underlying call raises.
NoUser == [none |-> TRUE]
LookupRaises == [raises |-> "Exception"]
Users ==
    {[is_admin |-> TRUE, is_owner |-> FALSE], [is_admin |-> FALSE, is_owner |-> TRUE],
     [is_admin |-> FALSE, is_owner |-> FALSE]}
NotLooked == [called |-> FALSE]

\* Message texts.
SEND == <<"s", "e", "n", "d">>
CANCEL == <<"c", "a", "n", "c", "e", "l">>
BANG == <<"!">>
SP == <<" ">>
SET == <<"s", "e", "t">>
SHOW == <<"s", "h", "o", "w">>
ADD == <<"a", "d", "d">>
REMOVE == <<"r", "e", "m", "o", "v", "e">>
STREAM == <<"s", "t", "r", "e", "a", "m">>
TOPIC == <<"t", "o", "p", "i", "c">>
PHRASE_KEY == <<"p", "h", "r", "a", "s", "e">>
TARGET_STREAM == <<"t", "a", "r", "g", "e", "t", "_", "s", "t", "r", "e", "a", "m">>
DELETE_AFTER == <<"d", "e", "l", "e", "t", "e", "_", "a", "f", "t", "e", "r", "_",
                  "m", "i", "n", "u", "t", "e", "s">>
CMD_CONFIG == BANG \o <<"c", "o", "n", "f", "i", "g">>
CMD_ANON == BANG \o <<"a", "n", "o", "n">>
CMD_ACCESS == BANG \o <<"a", "c", "c", "e", "s", "s">>
CMD_SUBSCRIBE == BANG \o <<"s", "u", "b", "s", "c", "r", "i", "b", "e">>

\* One "key: value" line of a YAML body.
YamlLine(k, v) == k \o <<":", " ">> \o v

RuleYaml ==
    YamlLine(STREAM, STREAM_B) \o <<NL>> \o YamlLine(TOPIC, TOPIC_T) \o <<NL>>
    \o YamlLine(PHRASE_KEY, <<"h", "i">>) \o <<NL>> \o YamlLine(TARGET_STREAM, ROOM)

\* The contents of the private messages sent to the bot.
PrivateContents ==
    {<<"h", "i", " ">>,
     <<" ", "S", "e", "n", "d">>,
     CANCEL,
     CMD_ANON \o SP \o SET \o SP \o STREAM \o SP \o STREAM_B,
     SP \o CMD_ANON \o SP \o SET \o SP \o DELETE_AFTER \o SP \o <<"7">>,
     CMD_ANON \o SP \o SET \o SP \o DELETE_AFTER \o SP \o <<"x">>,
     CMD_ANON \o SP \o SHOW,
     CMD_ACCESS \o SP \o ADD \o <<NL>> \o RuleYaml,
     CMD_ACCESS \o SP \o REMOVE \o <<NL>> \o YamlLine(STREAM, STREAM_A) \o <<NL>>
         \o YamlLine(TOPIC, TOPIC_T) \o <<NL>> \o YamlLine(PHRASE_KEY, PHRASE),
     CMD_ACCESS \o SP \o ADD \o <<NL>> \o <<"x">>,
     CMD_SUBSCRIBE \o SP \o STREAM_A,
     BANG \o <<"x">>}

StreamContents == {<<"h", "i", " ">>, <<"n", "o">>}

\* The raw message events the platform delivers with message id i.
BotEvents(i) ==
    {[type |-> "message",
      message |-> [type |-> "private", id |-> i, sender_id |-> u,
                   sender_email |-> "user@example.org", content |-> c,
                   is_me_message |-> FALSE]] :
        u \in UserIds, c \in PrivateContents}
    \cup
    {[type |-> "message",
      message |-> [type |-> "stream", id |-> i, sender_id |-> u,
                   sender_email |-> "user@example.org", content |-> c,
                   display_recipient |-> st, subject |-> TOPIC_T,
                   is_me_message |-> FALSE]] :
        u \in UserIds, c \in StreamContents, st \in {STREAM_A, STREAM_B}}

\* AnonymousPostingFeature._pending: no entry, or a PendingAnon
NoPending == [none |-> TRUE]
PendingAnon(original_message_id, original_content) ==
    [original_message_id |-> original_message_id, original_content |-> original_content]

SchedInit ==
    /\ clock = 0
    /\ tasks = <<>>
    /\ lock = "free"
    /\ spc = "run"
    /\ now = 0
    /\ to_delete = <<>>
    /\ idx = 0
    /\ nsched = 0
    /\ reqs = [m \in MsgIds |-> 0]
    /\ wrote = [m \in MsgIds |-> {}]
    /\ addedMid = [m \in MsgIds |-> FALSE]
    /\ resched = [m \in MsgIds |-> FALSE]
    /\ early = FALSE
    /\ failed = {}
    /\ sweepRaised = FALSE
    /\ prevRaised = FALSE

DispInit ==
    /\ features = <<>>
    /\ dpc = "idle"
    /\ fidx = 0
    /\ msg_event = NoEvent
    /\ trace = <<>>
    /\ logged = {}
    /\ dstatus = "none"

\* The feature handlers before any event, over the configuration cfg.
BotVarsInit(cfg) ==
    /\ config = cfg
    /\ pending = [u \in UserIds |-> NoPending]
    /\ next_id = 1
    /\ effects = <<>>
    /\ looked = NotLooked

DefaultConfig ==
    CHOOSE c \in ConfigFiles : "target_stream" \in DOMAIN c.anonymous_posting

\* The event source at its first poll, with queue["last_event_id"] = cursor.
EvInit(cursor) ==
    /\ epc = "poll"
    /\ last_event_id = cursor
    /\ poll_res = NoResponse
    /\ batch = <<>>
    /\ bidx = 0
    /\ yielded = <<>>
    /\ seen = {}
    /\ backoff = 0
    /\ npolls = 0

\* No send has been made.
SendInit ==
    /\ snd_pc = "idle"
    /\ snd_fn = "none"
    /\ attempt = 0
    /\ snd_hist = <<>>
    /\ snd_ret = NoneInt
    /\ nsends = 0

ClientInit == EvInit(0) /\ SendInit

Init == SchedInit /\ DispInit /\ BotVarsInit(DefaultConfig) /\ ClientInit

\* ------------------------------------------------ DeletionScheduler.schedule
\* schedule_deletion(message_id, delete_after_minutes): no lock is taken.
schedule_deletion(m, d) ==
    LET at == clock + d IN
    /\ nsched < MaxSchedules
    /\ nsched' = nsched + 1
    /\ tasks' = DictSet(tasks, m, ScheduledDeletion(m, at))
    /\ reqs' = [reqs EXCEPT ![m] = 0]
    /\ wrote' = [wrote EXCEPT ![m] = IF SweepInProgress THEN {at} ELSE {}]
    /\ addedMid' = [addedMid EXCEPT ![m] = SweepInProgress]
    /\ resched' = [resched EXCEPT ![m] = InTable(tasks, m) /\ DueOf(tasks, m) < at]
    /\ failed' = failed \ {m}
    /\ UNCHANGED <<clock, lock, spc, now, to_delete, idx, early, sweepRaised,
                   prevRaised>>

Schedule == \E m \in MsgIds, d \in Delays : schedule_deletion(m, d)

\* Time passes while the tasks wait.
Tick ==
    /\ clock < MaxTime
    /\ clock' = clock + 1
    /\ UNCHANGED <<tasks, lock, spc, now, to_delete, idx, nsched, histVars>>

\* ------------------------------------------------- DeletionScheduler.run
\* run(): the top of the while loop calls _run_once, which reads now and
\* waits for the lock.
RunOnceBegin ==
    /\ spc = "run"
    /\ now' = clock
    /\ to_delete' = <<>>
    /\ idx' = 0
    /\ spc' = "snap_acquire"
    /\ wrote' = [m \in MsgIds |-> {}]
    /\ failed' = {}
    /\ prevRaised' = sweepRaised
    /\ sweepRaised' = FALSE
    /\ UNCHANGED <<clock, tasks, lock, nsched, reqs, addedMid, resched, early>>

\* async with self._lock (line 78)
AcquireSnapshot ==
    /\ spc = "snap_acquire"
    /\ lock = "free"
    /\ lock' = "sweep"
    /\ spc' = "snap_locked"
    /\ UNCHANGED <<clock, tasks, now, to_delete, idx, nsched, histVars>>

\* the body under the lock (lines 79-81), and its release
\* The snapshot block leaving its "async with" without releasing the lock.
Snapshot_HoldLock ==
    /\ spc = "snap_locked"
    /\ to_delete' = DueIds(tasks, now)
    /\ lock' = "sweep"
    /\ spc' = NextPc(to_delete', 0)
    /\ idx' = IF Len(to_delete') > 0 THEN 1 ELSE 0
    /\ UNCHANGED <<clock, tasks, now, nsched, histVars>>

Snapshot ==
    /\ spc = "snap_locked"
    /\ to_delete' = DueIds(tasks, now)
    /\ lock' = "free"
    /\ spc' = NextPc(to_delete', 0)
    /\ idx' = IF Len(to_delete') > 0 THEN 1 ELSE 0
    /\ UNCHANGED <<clock, tasks, now, nsched, histVars>>

\* line 84: the delete request for to_delete[idx] goes out
IssueDelete ==
    /\ spc = "call"
    /\ spc' = "inflight"
    /\ reqs' = [reqs EXCEPT ![Cur] = @ + 1]
    /\ early' = (resched[Cur] /\ InTable(tasks, Cur) /\ DueOf(tasks, Cur) > clock)
    /\ UNCHANGED <<clock, tasks, lock, now, to_delete, idx, nsched>>
    /\ UNCHANGED <<wrote, addedMid, resched, failed, sweepRaised, prevRaised>>

\* line 84 raises: the exception leaves _run_once; run() catches it
\* (lines 68-71) and goes on to trio.sleep.
DeleteRaise_Crash(resp) ==
    /\ spc = "inflight"
    /\ delete_message(resp) = "raise"
    /\ spc' = "crashed"
    /\ sweepRaised' = TRUE
    /\ failed' = failed \cup {Cur}
    /\ UNCHANGED <<clock, tasks, lock, now, to_delete, idx, nsched>>
    /\ UNCHANGED <<reqs, wrote, addedMid, resched, early, prevRaised>>

DeleteRaise(resp) ==
    /\ spc = "inflight"
    /\ delete_message(resp) = "raise"
    /\ spc' = "sleep"
    /\ sweepRaised' = TRUE
    /\ failed' = failed \cup {Cur}
    /\ UNCHANGED <<clock, tasks, lock, now, to_delete, idx, nsched>>
    /\ UNCHANGED <<reqs, wrote, addedMid, resched, early, prevRaised>>

\* line 84 returns True or False (lines 85-88 only log)
DeleteReturn(resp) ==
    /\ spc = "inflight"
    /\ delete_message(resp) # "raise"
    /\ failed' = IF delete_message(resp) = "false" THEN failed \cup {Cur} ELSE failed
    /\ spc' = "pop_acquire"
    /\ UNCHANGED <<clock, tasks, lock, now, to_delete, idx, nsched>>
    /\ UNCHANGED <<reqs, wrote, addedMid, resched, early, sweepRaised, prevRaised>>

\* async with self._lock (line 89)
AcquirePop ==
    /\ spc = "pop_acquire"
    /\ lock = "free"
    /\ lock' = "sweep"
    /\ spc' = "pop_locked"
    /\ UNCHANGED <<clock, tasks, now, to_delete, idx, nsched, histVars>>

\* self._tasks.pop(msg_id, None) (line 90), the release, and the next
\* iteration or the return of _run_once
Pop ==
    /\ spc = "pop_locked"
    /\ tasks' = DictPop(tasks, Cur)
    /\ lock' = "free"
    /\ spc' = NextPc(to_delete, idx)
    /\ idx' = IF idx < Len(to_delete) THEN idx + 1 ELSE idx
    /\ resched' = [resched EXCEPT ![Cur] = FALSE]
    /\ UNCHANGED <<clock, now, to_delete, nsched>>
    /\ UNCHANGED <<reqs, wrote, addedMid, early, failed, sweepRaised, prevRaised>>

\* await trio.sleep(60) (line 72), then the top of the while loop
Sleep ==
    /\ spc = "sleep"
    /\ clock + SleepMinutes <= MaxTime
    /\ clock' = clock + SleepMinutes
    /\ spc' = "run"
    /\ UNCHANGED <<tasks, lock, now, to_delete, idx, nsched, histVars>>

\* The two tasks of the scheduler's side: the callers of schedule_deletion
\* and the sweep loop; the dispatcher's state is not touched.
Next ==
    \/ Schedule /\ UNCHANGED <<dispVars, botVars, clientVars>>
    \/ Tick /\ UNCHANGED <<dispVars, botVars, clientVars>>
    \/ RunOnceBegin /\ UNCHANGED <<dispVars, botVars, clientVars>>
    \/ AcquireSnapshot /\ UNCHANGED <<dispVars, botVars, clientVars>>
    \/ Snapshot /\ UNCHANGED <<dispVars, botVars, clientVars>>
    \/ IssueDelete /\ UNCHANGED <<dispVars, botVars, clientVars>>
    \/ (\E resp \in Responses : DeleteReturn(resp)) /\ UNCHANGED <<dispVars, botVars, clientVars>>
    \/ (\E resp \in Responses : DeleteRaise(resp)) /\ UNCHANGED <<dispVars, botVars, clientVars>>
    \/ AcquirePop /\ UNCHANGED <<dispVars, botVars, clientVars>>
    \/ Pop /\ UNCHANGED <<dispVars, botVars, clientVars>>
    \/ Sleep /\ UNCHANGED <<dispVars, botVars, clientVars>>

Spec == Init /\ [][Next]_vars

\* --------------------------------------------------- core/dispatcher.py
FeatureNames == {"admin", "anon", "access"}

\* Dispatcher.register_feature; bot_main registers every feature before the
\* event loop starts (bot_main.py lines 76-78).
register_feature(f) ==
    /\ dpc = "idle"
    /\ dstatus = "none"
    /\ Len(features) < MaxFeatures
    /\ features' = Append(features, f)
    /\ UNCHANGED <<dpc, fidx, msg_event, trace, logged, dstatus>>

\* The end of one iteration of the for loop over self._features: the next
\* handler, or dispatch_event returns.
Advance ==
    IF fidx < Len(features)
    THEN /\ fidx' = fidx + 1
         /\ dpc' = "handles"
         /\ UNCHANGED <<msg_event, dstatus>>
    ELSE /\ dpc' = "idle"
         /\ dstatus' = "returned"
         /\ msg_event' = NoEvent
         /\ UNCHANGED fidx

\* A dispatch that is started for an event while the previous one is still
\* with its handlers.
dispatch_event_Reentrant(event_dict) ==
    LET parsed == parse_message_event(event_dict) IN
    /\ trace' = <<>>
    /\ logged' = {}
    /\ UNCHANGED features
    /\ IF parsed = ParseRaises
       THEN /\ dpc' = "crashed"
            /\ dstatus' = "raised"
            /\ UNCHANGED <<fidx, msg_event>>
       ELSE IF parsed = NoEvent
       THEN /\ dstatus' = "skipped"
            /\ UNCHANGED <<dpc, fidx, msg_event>>
       ELSE IF features = <<>>
       THEN /\ dstatus' = "returned"
            /\ UNCHANGED <<dpc, fidx, msg_event>>
       ELSE /\ msg_event' = parsed
            /\ fidx' = 1
            /\ dpc' = "handles"
            /\ dstatus' = "running"

\* dispatch_event, lines 65-67 and the entry of the for loop.  An exception
\* of the parser is not caught: it leaves dispatch_event and the event loop
\* that awaits it (bot_main.py lines 95-97).
dispatch_event(event_dict) ==
    LET parsed == parse_message_event(event_dict) IN
    /\ dpc = "idle"
    /\ trace' = <<>>
    /\ logged' = {}
    /\ UNCHANGED features
    /\ IF parsed = ParseRaises
       THEN /\ dpc' = "crashed"
            /\ dstatus' = "raised"
            /\ UNCHANGED <<fidx, msg_event>>
       ELSE IF parsed = NoEvent
       THEN /\ dstatus' = "skipped"
            /\ UNCHANGED <<dpc, fidx, msg_event>>
       ELSE IF features = <<>>
       THEN /\ dstatus' = "returned"
            /\ UNCHANGED <<dpc, fidx, msg_event>>
       ELSE /\ msg_event' = parsed
            /\ fidx' = 1
            /\ dpc' = "handles"
            /\ dstatus' = "running"

Call(op, res) == [op |-> op, i |-> fidx, res |-> res]

\* line 71: await feature.handles(msg_event) returns
HandlesReturns_Always(res) ==
    /\ dpc = "handles"
    /\ trace' = Append(trace, Call("handles", res))
    /\ dpc' = "handle"
    /\ UNCHANGED <<features, fidx, msg_event, logged, dstatus>>

HandlesReturns(res) ==
    /\ dpc = "handles"
    /\ trace' = Append(trace, Call("handles", res))
    /\ IF res = "true"
       THEN /\ dpc' = "handle"
            /\ UNCHANGED <<fidx, msg_event, dstatus>>
       ELSE Advance
    /\ UNCHANGED <<features, logged>>

\* A dispatcher that returns once a handler has handled the event.
HandleReturns_Stop ==
    /\ dpc = "handle"
    /\ trace' = Append(trace, Call("handle", "ok"))
    /\ dpc' = "idle"
    /\ dstatus' = "returned"
    /\ msg_event' = NoEvent
    /\ UNCHANGED <<features, fidx, logged>>

\* line 72: await feature.handle(msg_event) returns
HandleReturns ==
    /\ dpc = "handle"
    /\ trace' = Append(trace, Call("handle", "ok"))
    /\ Advance
    /\ UNCHANGED <<features, logged>>

\* lines 73-76: handles or handle raises an Exception; it is logged and the
\* loop goes on.
HandlerRaises_Propagate ==
    /\ dpc \in {"handles", "handle"}
    /\ trace' = Append(trace, Call(dpc, "raise"))
    /\ dpc' = "crashed"
    /\ dstatus' = "raised"
    /\ UNCHANGED <<features, fidx, msg_event, logged>>

HandlerRaises ==
    /\ dpc \in {"handles", "handle"}
    /\ trace' = Append(trace, Call(dpc, "raise"))
    /\ logged' = logged \cup {fidx}
    /\ Advance
    /\ UNCHANGED features

\* The dispatcher alone: registration, then events one after the other; the
\* scheduler's state is not touched.
DispatchNext ==
    \/ (\E f \in FeatureNames : register_feature(f)) /\ UNCHANGED <<schedVars, histVars, botVars, clientVars>>
    \/ (\E e \in RawEvents : dispatch_event(e)) /\ UNCHANGED <<schedVars, histVars, botVars, clientVars>>
    \/ (\E res \in {"true", "false"} : HandlesReturns(res))
            /\ UNCHANGED <<schedVars, histVars, botVars, clientVars>>
    \/ HandleReturns /\ UNCHANGED <<schedVars, histVars, botVars, clientVars>>
    \/ HandlerRaises /\ UNCHANGED <<schedVars, histVars, botVars, clientVars>>

DispatchSpec == Init /\ [][DispatchNext]_vars

\* ------------------------------------------------------ the calls handlers make
\* What a handler does to the outside is the sequence of its calls; the
\* result of send_private_message is ignored by every handler, so its
\* failure (None) changes nothing and only its text is kept, as a label.
SendStream(stream, topic, content, res) ==
    [op |-> "send_stream_message", stream |-> stream, topic |-> topic,
     content |-> content, res |-> res]

SendPrivate(to, text) == [op |-> "send_private_message", to |-> to, text |-> text]

ScheduleCall(message_id, minutes) ==
    [op |-> "schedule_deletion", message_id |-> message_id,
     delete_after_minutes |-> minutes]

UpdateCall(cfg) == [op |-> "update", config |-> cfg]

SubscribeUser(user_id, stream, res) ==
    [op |-> "add_user_subscriptions", user_id |-> user_id, stream |-> stream, res |-> res]

React(message_id) ==
    [op |-> "react_to_message", message_id |-> message_id, emoji |-> "saluting_face"]

SubscribeBot(streams) == [op |-> "subscribe_bot_to_streams", streams |-> streams]

\* The table after the schedule_deletion calls of a handler, made at time clk.
RECURSIVE Scheduled(_, _, _)
Scheduled(t, calls, clk) ==
    IF calls = <<>> THEN t
    ELSE LET c == Head(calls) IN
         Scheduled(IF c.op = "schedule_deletion"
                   THEN DictSet(t, c.message_id,
                                ScheduledDeletion(c.message_id, clk + c.delete_after_minutes))
                   ELSE t,
                   Tail(calls), clk)

CountOf(calls, op) == Cardinality({i \in 1..Len(calls) : calls[i].op = op})

\* What a handler returns to the model: the state it leaves and its calls.
Outcome(cfg, pend, nid, calls, raised) ==
    [config |-> cfg, pending |-> pend, next_id |-> nid, calls |-> calls, raised |-> raised]

\* ------------------------------------------------------ features/anonymous_posting.py
ANON_PREFIX ==
    <<"A", "n", "o", "n", "y", "m", "o", "u", "s", " ", "m", "e", "s", "s", "a", "g", "e",
      ":", NL, NL>>

\* send_stream_message: the id of the new message, None, or the call raises.
StreamSendResults == {"id", "none", "raise"}

anon_handles(event, cfg) ==
    /\ Get(Get(cfg, "anonymous_posting", <<>>), "enabled", FALSE)
    /\ event.message_type = "private"

\* A post that is signed with its sender's address.
AnonContent_Signed(p, event) ==
    Append(ANON_PREFIX \o p.original_content, event.sender_email)

\* The text the confirmed post carries.
AnonContent_Reply(p, event) == ANON_PREFIX \o event.content

AnonContent(p, event) == ANON_PREFIX \o p.original_content

\* The schedule_deletion calls of a confirmed post: anon_msg_id is the id of
\* the anonymous copy, or NoneInt when the send returned None.
ConfirmSchedules_Short(anon_msg_id, p, event, delete_after_minutes) ==
    (IF anon_msg_id # NoneInt THEN <<ScheduleCall(anon_msg_id, 1)>> ELSE <<>>)
    \o <<ScheduleCall(p.original_message_id, 1), ScheduleCall(event.id, 1)>>

\* A SEND branch that schedules the anonymous copy whatever the send gave.
ConfirmSchedules_Unguarded(anon_msg_id, p, event, delete_after_minutes) ==
    <<ScheduleCall(anon_msg_id, delete_after_minutes),
      ScheduleCall(p.original_message_id, 1), ScheduleCall(event.id, 1)>>

ConfirmSchedules(anon_msg_id, p, event, delete_after_minutes) ==
    (IF anon_msg_id # NoneInt
     THEN <<ScheduleCall(anon_msg_id, delete_after_minutes)>> ELSE <<>>)
    \o <<ScheduleCall(p.original_message_id, 1), ScheduleCall(event.id, 1)>>

\* A flow that leaves the entry in place when it answers.
pending_pop_Keep(pend, sender) == pend

\* line 67: self._pending.pop(event.sender_id), the table it leaves
pending_pop(pend, sender) == [pend EXCEPT ![sender] = NoPending]

\* A CANCEL branch that forgets the CANCEL reply.
CancelSchedules_OriginalOnly(p, event) == <<ScheduleCall(p.original_message_id, 1)>>

\* lines 97-104: the two schedule calls of the CANCEL branch
CancelSchedules(p, event) ==
    <<ScheduleCall(p.original_message_id, 1), ScheduleCall(event.id, 1)>>

anon_handle(event, cfg, pend, nid, res) ==
    LET acfg == Get(cfg, "anonymous_posting", <<>>)
        target_stream == Get(acfg, "target_stream", ANONYMOUS)
        target_topic == Get(acfg, "target_topic", GENERAL)
        delete_after_minutes == Get(acfg, "delete_after_minutes", DELETE_AFTER_MINUTES)
        normalized == lower(strip(event.content))
        sender == event.sender_id
    IN
    IF pend[sender] # NoPending
    THEN LET p == pend[sender]
             popped == pending_pop(pend, sender)
             content == AnonContent(p, event)
         IN
         IF normalized = SEND
         THEN CASE res = "raise" ->
                     Outcome(cfg, popped, nid,
                             <<SendStream(target_stream, target_topic, content, res)>>, TRUE)
                [] res = "none" ->
                     Outcome(cfg, popped, nid,
                             <<SendStream(target_stream, target_topic, content, res)>>
                             \o ConfirmSchedules(NoneInt, p, event, delete_after_minutes)
                             \o <<SendPrivate(sender, "posted anonymously")>>, FALSE)
                [] OTHER ->
                     Outcome(cfg, popped, nid + 1,
                             <<SendStream(target_stream, target_topic, content, res)>>
                             \o ConfirmSchedules(nid, p, event, delete_after_minutes)
                             \o <<SendPrivate(sender, "posted anonymously")>>, FALSE)
         ELSE IF normalized = CANCEL
         THEN Outcome(cfg, popped, nid,
                      CancelSchedules(p, event) \o <<SendPrivate(sender, "not posted")>>,
                      FALSE)
         ELSE Outcome(cfg, popped, nid, <<SendPrivate(sender, "unknown input")>>, FALSE)
    ELSE Outcome(cfg, [pend EXCEPT ![sender] = PendingAnon(event.id, event.content)], nid,
                 <<SendPrivate(sender, "preview")>>, FALSE)


\* ===================================================================
\* Properties of the dispatcher (checked under DispatchSpec)

\* ------------------------------------------------------ features/admin_controls.py
\* A handles that accepts whatever user the lookup finds.
admin_handles_AnyUser(event, user) ==
    IF event.message_type # "private" THEN "false"
    ELSE IF ~startswith(strip(event.content), BANG) THEN "false"
    ELSE IF user = LookupRaises THEN "raise"
    ELSE IF user = NoUser THEN "false"
    ELSE "true"

\* AdminControlsFeature.handles; user is what get_user_by_id gives when it
\* is called.
admin_handles(event, user) ==
    IF event.message_type # "private" THEN "false"
    ELSE IF ~startswith(strip(event.content), BANG) THEN "false"
    ELSE IF user = LookupRaises THEN "raise"
    ELSE IF user = NoUser THEN "false"
    ELSE IF ~(user.is_admin \/ user.is_owner) THEN "false"
    ELSE "true"

\* handles reaches the user lookup
LooksUp(event) ==
    event.message_type = "private" /\ startswith(strip(event.content), BANG)

\* int(value) for a string of decimal digits; ValueError is NoneInt
Digits == <<"0", "1", "2", "3", "4", "5", "6", "7", "8", "9">>
IsDigit(c) == \E i \in 1..Len(Digits) : Digits[i] = c
DigitValue(c) == (CHOOSE i \in 1..Len(Digits) : Digits[i] = c) - 1

RECURSIVE DigitsValue(_)
DigitsValue(s) ==
    IF s = <<>> THEN 0
    ELSE DigitsValue(SubSeq(s, 1, Len(s) - 1)) * Len(Digits) + DigitValue(s[Len(s)])

int(s) ==
    IF s # <<>> /\ \A i \in 1..Len(s) : IsDigit(s[i]) THEN DigitsValue(s) ELSE NoneInt

\* yaml.safe_load on the bodies the model sends: a body whose every line is
\* "key: value" is a mapping, an opening bracket is a YAMLError, any other
\* text is a scalar.
YamlError == [kind |-> "YAMLError"]
YamlScalar == [kind |-> "scalar"]
YamlMapping(d) == [kind |-> "mapping", dict |-> d]

KeyOf(line) == SubSeq(line, 1, FindFirst(line, {":"}, 1) - 1)
ValueOf(line) == strip(SubSeq(line, FindFirst(line, {":"}, 1) + 1, Len(line)))

yaml_safe_load(body) ==
    LET ls == splitlines(body)
        Lines == {ls[i] : i \in 1..Len(ls)}
    IN
    IF Head(body) \in {"[", "{"} THEN YamlError
    ELSE IF \A l \in Lines : FindFirst(l, {":"}, 1) <= Len(l)
    THEN YamlMapping([k \in {KeyOf(l) : l \in Lines} |->
                          ValueOf(CHOOSE l \in Lines : KeyOf(l) = k)])
    ELSE YamlScalar

_handle_config(cmd, cfg, sender) ==
    LET parts == split(cmd) IN
    IF Len(parts) = 2 /\ parts[2] = SHOW
    THEN Outcome(cfg, pending, next_id, <<SendPrivate(sender, "current config")>>, FALSE)
    ELSE Outcome(cfg, pending, next_id, <<SendPrivate(sender, "usage config")>>, FALSE)

_handle_anon(cmd, cfg, sender) ==
    LET parts == split(cmd) IN
    IF Len(parts) = 2 /\ parts[2] = SHOW
    THEN Outcome(cfg, pending, next_id, <<SendPrivate(sender, "anon config")>>, FALSE)
    ELSE IF Len(parts) # 4 \/ parts[2] # SET
    THEN Outcome(cfg, pending, next_id, <<SendPrivate(sender, "usage anon")>>, FALSE)
    ELSE LET field == parts[3]
             value == parts[4]
             cfg1 == SetDefault(cfg, "anonymous_posting", <<>>)
             anon_cfg == cfg1.anonymous_posting
             Set(k, v) == SetItem(cfg1, "anonymous_posting", SetItem(anon_cfg, k, v))
             Updated(c) ==
                 Outcome(c, pending, next_id,
                         <<UpdateCall(c), SendPrivate(sender, "anon config updated")>>, FALSE)
         IN
         IF field = STREAM THEN Updated(Set("target_stream", value))
         ELSE IF field = TOPIC THEN Updated(Set("target_topic", value))
         ELSE IF field = DELETE_AFTER
         THEN IF int(value) # NoneInt THEN Updated(Set("delete_after_minutes", int(value)))
              ELSE Outcome(cfg1, pending, next_id,
                           <<SendPrivate(sender, "must be an integer")>>, FALSE)
         ELSE Outcome(cfg1, pending, next_id, <<SendPrivate(sender, "unknown field")>>, FALSE)

_handle_access(cmd, body, cfg, sender) ==
    LET parts == split(cmd)
        Reply(c, text) == Outcome(c, pending, next_id, <<SendPrivate(sender, text)>>, FALSE)
    IN
    IF Len(parts) # 2 \/ parts[2] \notin {ADD, REMOVE} THEN Reply(cfg, "usage access")
    ELSE IF body = <<>> THEN Reply(cfg, "provide YAML body")
    ELSE LET loaded == yaml_safe_load(body) IN
         IF loaded.kind = "YAMLError" THEN Reply(cfg, "failed to parse YAML")
         ELSE IF loaded.kind # "mapping" THEN Reply(cfg, "body must be a mapping")
         ELSE LET data == loaded.dict
                  cfg1 == SetDefault(cfg, "private_access", <<>>)
                  p_cfg == SetDefault(cfg1.private_access, "watch_rules", <<>>)
                  cfg2 == SetItem(cfg1, "private_access", p_cfg)
                  rules == p_cfg.watch_rules
                  With(rs) == SetItem(cfg2, "private_access", SetItem(p_cfg, "watch_rules", rs))
                  Updated(c, text) ==
                      Outcome(c, pending, next_id,
                              <<UpdateCall(c), SendPrivate(sender, text)>>, FALSE)
              IN
              IF parts[2] = ADD
              THEN IF ~({STREAM, TOPIC, PHRASE_KEY, TARGET_STREAM} \subseteq DOMAIN data)
                   THEN Reply(cfg2, "YAML must include four fields")
                   ELSE Updated(With(Append(rules,
                                            WatchRule(data[STREAM], data[TOPIC],
                                                      data[PHRASE_KEY], data[TARGET_STREAM]))),
                                "rule added")
              ELSE IF ~({STREAM, TOPIC, PHRASE_KEY} \subseteq DOMAIN data)
                   THEN Reply(cfg2, "YAML must include three fields")
                   ELSE Updated(With(SelectSeq(rules,
                                       LAMBDA r : ~(/\ Get(r, "stream", NoneText) = data[STREAM]
                                                    /\ Get(r, "topic", NoneText) = data[TOPIC]
                                                    /\ Get(r, "phrase", NoneText) = data[PHRASE_KEY]))),
                                "rules removed")

_handle_subscribe(cmd, cfg, sender) ==
    LET parts == split(cmd) IN
    IF Len(parts) < 2
    THEN Outcome(cfg, pending, next_id, <<SendPrivate(sender, "usage subscribe")>>, FALSE)
    ELSE Outcome(cfg, pending, next_id,
                 <<SubscribeBot(Tail(parts)), SendPrivate(sender, "subscribe result")>>, FALSE)

admin_handle(event, cfg) ==
    LET lines == splitlines(strip(event.content)) IN
    IF lines = <<>> THEN Outcome(cfg, pending, next_id, <<>>, FALSE)
    ELSE LET cmd_line == strip(lines[1])
             body == strip(join(Tail(lines)))
             sender == event.sender_id
         IN
         IF startswith(cmd_line, CMD_CONFIG) THEN _handle_config(cmd_line, cfg, sender)
         ELSE IF startswith(cmd_line, CMD_ANON) THEN _handle_anon(cmd_line, cfg, sender)
         ELSE IF startswith(cmd_line, CMD_ACCESS) THEN _handle_access(cmd_line, body, cfg, sender)
         ELSE IF startswith(cmd_line, CMD_SUBSCRIBE) THEN _handle_subscribe(cmd_line, cfg, sender)
         ELSE Outcome(cfg, pending, next_id,
                      <<SendPrivate(sender, "unknown admin command")>>, FALSE)

\* ------------------------------------------------------ features/private_access.py
RuleKeys == {"stream", "topic", "phrase", "target_stream"}

_load_rules(cfg) ==
    LET pcfg == Get(cfg, "private_access", <<>>) IN
    IF ~Get(pcfg, "enabled", FALSE) THEN <<>>
    ELSE SelectSeq(Get(pcfg, "watch_rules", <<>>), LAMBDA r : RuleKeys \subseteq DOMAIN r)

\* A rule that watches any place.
SamePlace_Any(r, event) == TRUE

\* The rule watches the stream and topic of the event.
SamePlace(r, event) == r.stream = event.stream /\ r.topic = event.topic

access_handles(event, cfg) ==
    /\ event.message_type = "stream"
    /\ LET rules == _load_rules(cfg) IN
       \E i \in 1..Len(rules) : SamePlace(rules[i], event)

\* add_user_subscriptions returns (whether or not the platform accepted the
\* request) or the underlying call raises.
SubscribeResults == {"returned", "raise"}

\* The for loop of handle over the rules left: res is the outcome of every
\* add_user_subscriptions call it makes.
RECURSIVE AccessLoop(_, _, _)
AccessLoop(rules, event, res) ==
    IF rules = <<>> THEN [calls |-> <<>>, raised |-> FALSE]
    ELSE LET r == Head(rules) IN
         IF SamePlace(r, event) /\ normalize_phrase(r.phrase) = normalize_phrase(event.content)
         THEN IF res = "raise"
              THEN [calls |-> <<SubscribeUser(event.sender_id, r.target_stream, res)>>,
                    raised |-> TRUE]
              ELSE LET rest == AccessLoop(Tail(rules), event, res) IN
                   [calls |-> <<SubscribeUser(event.sender_id, r.target_stream, res),
                                React(event.id)>> \o rest.calls,
                    raised |-> rest.raised]
         ELSE AccessLoop(Tail(rules), event, res)

access_handle(event, cfg, res) ==
    LET loop == AccessLoop(_load_rules(cfg), event, res) IN
    Outcome(cfg, pending, next_id, loop.calls, loop.raised)

\* ------------------------------------------------------ bot_main.py
\* main() registers the three handlers admin first, then reads the event
\* source and awaits dispatch_event for one event after the other.
\* A main() that registers the anonymous-posting handler first.
RegistrationOrder_AnonFirst == <<"anon", "admin", "access">>

\* features = [admin_feature, anon_feature, access_feature]
RegistrationOrder == <<"admin", "anon", "access">>

BotInit ==
    /\ SchedInit
    /\ features = RegistrationOrder
    /\ dpc = "idle" /\ fidx = 0 /\ msg_event = NoEvent
    /\ trace = <<>> /\ logged = {} /\ dstatus = "none"
    /\ \E cfg \in ConfigFiles : BotVarsInit(cfg)
    /\ ClientInit

\* event_loop: the next event of the source goes to dispatch_event.
BotDispatch ==
    /\ next_id <= MaxId
    /\ \E e \in BotEvents(next_id) : dispatch_event(e)
    /\ next_id' = next_id + 1
    /\ effects' = <<>>
    /\ looked' = NotLooked
    /\ UNCHANGED <<config, pending, schedVars, histVars>>

\* A handler's handle has run to its end or to an exception: what it did to
\* the configuration, the pending entries and the scheduler's table.
Apply(out) ==
    /\ config' = out.config
    /\ pending' = out.pending
    /\ next_id' = out.next_id
    /\ effects' = effects \o out.calls
    /\ tasks' = Scheduled(tasks, out.calls, clock)
    /\ nsched' = nsched + CountOf(out.calls, "schedule_deletion")
    /\ IF out.raised THEN HandlerRaises ELSE HandleReturns
    /\ UNCHANGED <<clock, lock, spc, now, to_delete, idx, histVars, looked>>

AdminHandles ==
    /\ dpc = "handles" /\ features[fidx] = "admin"
    /\ \E user \in Users \cup {NoUser, LookupRaises} :
           /\ LET r == admin_handles(msg_event, user) IN
              IF r = "raise" THEN HandlerRaises ELSE HandlesReturns(r)
           /\ looked' = IF LooksUp(msg_event) THEN user ELSE looked
    /\ UNCHANGED <<config, pending, next_id, effects, schedVars, histVars>>

AdminHandle ==
    /\ dpc = "handle" /\ features[fidx] = "admin"
    /\ Apply(admin_handle(msg_event, config))

AnonHandles ==
    /\ dpc = "handles" /\ features[fidx] = "anon"
    /\ HandlesReturns(IF anon_handles(msg_event, config) THEN "true" ELSE "false")
    /\ UNCHANGED <<botVars, schedVars, histVars>>

AnonHandle ==
    /\ dpc = "handle" /\ features[fidx] = "anon"
    /\ \E res \in StreamSendResults :
           Apply(anon_handle(msg_event, config, pending, next_id, res))

AccessHandles ==
    /\ dpc = "handles" /\ features[fidx] = "access"
    /\ HandlesReturns(IF access_handles(msg_event, config) THEN "true" ELSE "false")
    /\ UNCHANGED <<botVars, schedVars, histVars>>

AccessHandle ==
    /\ dpc = "handle" /\ features[fidx] = "access"
    /\ \E res \in SubscribeResults : Apply(access_handle(msg_event, config, res))

BotNext ==
    \/ BotDispatch /\ UNCHANGED clientVars
    \/ AdminHandles /\ UNCHANGED clientVars
    \/ AdminHandle /\ UNCHANGED clientVars
    \/ AnonHandles /\ UNCHANGED clientVars
    \/ AnonHandle /\ UNCHANGED clientVars
    \/ AccessHandles /\ UNCHANGED clientVars
    \/ AccessHandle /\ UNCHANGED clientVars

BotSpec == BotInit /\ [][BotNext]_vars

\* ===================================================================
\* core/client.py: the event source
\* ------------------------------------------------------ what a poll returns
\* An event of a batch: a dict with an id, a dict without one, or a value
\* that is no dict.
PolledEvents ==
    {[id |-> i] : i \in 1..MaxEventId} \cup {[type |-> "heartbeat"], NonDict}

RECURSIVE SeqsUpTo(_, _)
SeqsUpTo(S, n) ==
    IF n = 0 THEN {<<>>}
    ELSE LET shorter == SeqsUpTo(S, n - 1) IN
         shorter \cup {Append(q, x) : q \in shorter, x \in S}

Batches == SeqsUpTo(PolledEvents, MaxBatch)

RATE_LIMIT_HIT == [result |-> "error", code |-> "RATE_LIMIT_HIT"]

\* The responses of get_events: a successful batch, a success without an
\* events key, rate-limit hits and other errors, some of which carry events.
PollResponses ==
    {[result |-> "success", events |-> b] : b \in Batches}
    \cup {[result |-> "success"],
          [result |-> "error", code |-> "RATE_LIMIT_HIT", events |-> <<[id |-> 1]>>],
          ("retry-after" :> 1) @@ RATE_LIMIT_HIT,
          ("x-ratelimit-reset" :> 2) @@ RATE_LIMIT_HIT,
          [result |-> "error", code |-> "BAD_EVENT_QUEUE_ID", events |-> <<[id |-> 1]>>],
          [result |-> "http-error"]}

PollRaised == [raises |-> "Exception"]

\* time.time() when the wait is computed
TimeNow == {0, 3}

Max(a, b) == IF a >= b THEN a ELSE b

\* _get_rate_limit_reset(response), with t what time.time() returns: the
\* retry-after of the response when it has one, else the time left to its
\* x-ratelimit-reset, else the default.
_get_rate_limit_reset(response, t) ==
    LET retry_after == Get(response, "retry-after", NoneInt) IN
    IF retry_after \notin {NoneInt, 0} THEN retry_after
    ELSE LET reset_time == Get(response, "x-ratelimit-reset", NoneInt) IN
         IF reset_time \notin {NoneInt, 0} THEN Max(0, reset_time - t)
         ELSE RATE_LIMIT_DEFAULT

\* A generator that looks at the events of a response whatever its result.
PollOutcome_AnyResult(res) ==
    IF Get(res, "code", NoneStr) = "RATE_LIMIT_HIT" THEN "rate_limit"
    ELSE IF Get(res, "events", <<>>) = <<>> THEN "empty"
    ELSE "batch"

\* lines 94-110: what the generator does with the response of a poll
PollOutcome(res) ==
    IF Get(res, "code", NoneStr) = "RATE_LIMIT_HIT" THEN "rate_limit"
    ELSE IF Get(res, "result", NoneStr) # "success" THEN "error"
    ELSE IF Get(res, "events", <<>>) = <<>> THEN "empty"
    ELSE "batch"

\* A cursor that is set to the id of the event at hand.
NextCursor_Assign(last, event) == Get(event, "id", last)

\* line 114: last_event_id = max(last_event_id, event.get("id", last_event_id))
NextCursor(last, event) == Max(last, Get(event, "id", last))

\* ------------------------------------------------------ ZulipTrioClient.events
\* lines 84-112: get_events(queue_id, last_event_id) returns res
get_events(res) ==
    /\ epc = "poll"
    /\ npolls < MaxPolls
    /\ npolls' = npolls + 1
    /\ poll_res' = res
    /\ yielded' = <<>>
    /\ LET o == PollOutcome(res) IN
       CASE o = "rate_limit" ->
                /\ epc' = "sleep"
                /\ \E t \in TimeNow : backoff' = _get_rate_limit_reset(res, t)
                /\ UNCHANGED <<batch, bidx>>
         [] o = "error" ->
                /\ epc' = "sleep"
                /\ backoff' = ERROR_BACKOFF
                /\ UNCHANGED <<batch, bidx>>
         [] o = "empty" ->
                /\ epc' = "poll"
                /\ UNCHANGED <<batch, bidx, backoff>>
         [] OTHER ->
                /\ epc' = "for"
                /\ batch' = res.events
                /\ bidx' = 1
                /\ UNCHANGED backoff
    /\ UNCHANGED <<last_event_id, seen>>

\* lines 120-122: the poll raises; the exception is logged
get_events_raises ==
    /\ epc = "poll"
    /\ npolls < MaxPolls
    /\ npolls' = npolls + 1
    /\ poll_res' = PollRaised
    /\ yielded' = <<>>
    /\ epc' = "sleep"
    /\ backoff' = EXCEPTION_BACKOFF
    /\ UNCHANGED <<last_event_id, batch, bidx, seen>>

\* lines 113-118: the cursor moves and the event is yielded
YieldEvent ==
    /\ epc = "for"
    /\ IsDict(batch[bidx])
    /\ last_event_id' = NextCursor(last_event_id, batch[bidx])
    /\ yielded' = Append(yielded, batch[bidx])
    /\ seen' = seen \cup (IF "id" \in DOMAIN batch[bidx] THEN {batch[bidx].id} ELSE {})
    /\ epc' = "yield"
    /\ UNCHANGED <<poll_res, batch, bidx, backoff, npolls>>

\* line 114 raises on an event that has no get; lines 120-122 catch it and
\* the rest of the batch is not yielded
EventRaises ==
    /\ epc = "for"
    /\ ~IsDict(batch[bidx])
    /\ epc' = "sleep"
    /\ backoff' = EXCEPTION_BACKOFF
    /\ UNCHANGED <<last_event_id, poll_res, batch, bidx, yielded, seen, npolls>>

\* The consumer asks for the next event: the for loop goes on, or the
\* while loop polls again.
Resume ==
    /\ epc = "yield"
    /\ IF bidx < Len(batch)
       THEN bidx' = bidx + 1 /\ epc' = "for"
       ELSE bidx' = bidx /\ epc' = "poll"
    /\ UNCHANGED <<last_event_id, poll_res, batch, yielded, seen, backoff, npolls>>

\* trio.sleep returns (lines 98, 104, 122), then the top of the while loop
Wake ==
    /\ epc = "sleep"
    /\ epc' = "poll"
    /\ backoff' = 0
    /\ UNCHANGED <<last_event_id, poll_res, batch, bidx, yielded, seen, npolls>>

\* queue["last_event_id"] at registration
Cursors == 0..1

EventsInit ==
    /\ SchedInit /\ DispInit /\ BotVarsInit(DefaultConfig) /\ SendInit
    /\ \E c \in Cursors : EvInit(c)

EventsNext ==
    \/ (\E res \in PollResponses : get_events(res))
           /\ UNCHANGED <<schedVars, histVars, dispVars, botVars, sendVars>>
    \/ get_events_raises /\ UNCHANGED <<schedVars, histVars, dispVars, botVars, sendVars>>
    \/ YieldEvent /\ UNCHANGED <<schedVars, histVars, dispVars, botVars, sendVars>>
    \/ EventRaises /\ UNCHANGED <<schedVars, histVars, dispVars, botVars, sendVars>>
    \/ Resume /\ UNCHANGED <<schedVars, histVars, dispVars, botVars, sendVars>>
    \/ Wake /\ UNCHANGED <<schedVars, histVars, dispVars, botVars, sendVars>>

EventsSpec == EventsInit /\ [][EventsNext]_vars

\* ------------------------------------------------------ sending a message
\* ZulipTrioClient.send_private_message (lines 179-219) and
\* send_stream_message (lines 221-264) run the same loop around
\* self._client.send_message.
SendFunctions == {"send_private_message", "send_stream_message"}

\* The responses of send_message: a success with the new message's id, a
\* rate-limit hit with or without a retry-after, another error.
SendResponses ==
    {[result |-> "success", id |-> i] : i \in {5, 6}}
    \cup {RATE_LIMIT_HIT,
          ("retry-after" :> 1) @@ RATE_LIMIT_HIT,
          [result |-> "error", code |-> "BAD_REQUEST"]}

SendRaised == [raises |-> "Exception"]

\* A loop that tries again after every response that is not a success.
SendOutcome_RetryAll(res, att) ==
    IF Get(res, "result", NoneStr) = "success"
    THEN [pc |-> "returned", ret |-> Get(res, "id", NoneInt)]
    ELSE IF att < max_retries - 1
    THEN [pc |-> "sleep", ret |-> NoneInt]
    ELSE [pc |-> "returned", ret |-> NoneInt]

\* lines 199-217: what the loop does with the response of attempt att
SendOutcome(res, att) ==
    IF Get(res, "code", NoneStr) = "RATE_LIMIT_HIT"
    THEN IF att < max_retries - 1
         THEN [pc |-> "sleep", ret |-> NoneInt]
         ELSE [pc |-> "returned", ret |-> NoneInt]
    ELSE IF Get(res, "result", NoneStr) = "success"
    THEN [pc |-> "returned", ret |-> Get(res, "id", NoneInt)]
    ELSE [pc |-> "returned", ret |-> NoneInt]

\* The function is called: max_retries = 3 and the first attempt starts.
SendBegin(fn) ==
    /\ snd_pc \in {"idle", "returned", "raised"}
    /\ nsends < MaxSends
    /\ nsends' = nsends + 1
    /\ snd_fn' = fn
    /\ attempt' = 0
    /\ snd_hist' = <<>>
    /\ snd_ret' = NoneInt
    /\ snd_pc' = "call"

\* lines 193-217: the send of this attempt returns res
SendResponse(res) ==
    /\ snd_pc = "call"
    /\ snd_hist' = Append(snd_hist, res)
    /\ snd_pc' = SendOutcome(res, attempt).pc
    /\ snd_ret' = SendOutcome(res, attempt).ret
    /\ UNCHANGED <<snd_fn, attempt, nsends>>

\* line 193: the send raises; nothing in the function catches it
SendRaises ==
    /\ snd_pc = "call"
    /\ snd_hist' = Append(snd_hist, SendRaised)
    /\ snd_pc' = "raised"
    /\ UNCHANGED <<snd_fn, attempt, snd_ret, nsends>>

\* lines 207-208: trio.sleep(retry_after) returns; continue
SendRetry ==
    /\ snd_pc = "sleep"
    /\ attempt' = attempt + 1
    /\ snd_pc' = "call"
    /\ UNCHANGED <<snd_fn, snd_hist, snd_ret, nsends>>

SendNext ==
    \/ (\E fn \in SendFunctions : SendBegin(fn))
           /\ UNCHANGED <<schedVars, histVars, dispVars, botVars, evVars>>
    \/ (\E res \in SendResponses : SendResponse(res))
           /\ UNCHANGED <<schedVars, histVars, dispVars, botVars, evVars>>
    \/ SendRaises /\ UNCHANGED <<schedVars, histVars, dispVars, botVars, evVars>>
    \/ SendRetry /\ UNCHANGED <<schedVars, histVars, dispVars, botVars, evVars>>

\* A call that was started goes on: the platform answers a request or the
\* request fails, and a sleep ends.
SendProgress ==
    /\ \/ \E res \in SendResponses : SendResponse(res)
       \/ SendRaises
       \/ SendRetry
    /\ UNCHANGED <<schedVars, histVars, dispVars, botVars, evVars>>

SendSpec == Init /\ [][SendNext]_vars /\ WF_vars(SendProgress)

\* The positions of self._features whose handles has been called for the
\* current event.
Evaluated == {trace[k].i : k \in {j \in 1..Len(trace) : trace[j].op = "handles"}}

Raised == {trace[k].i : k \in {j \in 1..Len(trace) : trace[j].res = "raise"}}

\* C1: handler isolation.  Whatever the earlier handlers did, raising
\* included, every registered handler is evaluated on the event: while the
\* loop stands at position fidx all positions before it have been evaluated,
\* and when dispatch_event has returned all of them have.  A handler's
\* failure is logged and never leaves dispatch_event: the event loop ends
\* only when no handler was called at all.
HandlerIsolation ==
    /\ dpc = "handles" => Evaluated = 1..(fidx - 1)
    /\ dpc = "handle" => Evaluated = 1..fidx
    /\ dstatus = "returned" => Evaluated = 1..Len(features)
    /\ Raised # {} => dpc # "crashed" /\ dstatus \in {"running", "returned"}
    /\ logged = Raised

\* Three handlers, the second raises on handle, the first and the third are
\* still handled and dispatch_event returns.
HandlerIsolationWitness ==
    /\ dstatus = "returned"
    /\ Len(features) = 3
    /\ \E a, b, c \in 1..Len(trace) :
        /\ trace[a] = [op |-> "handle", i |-> 1, res |-> "ok"]
        /\ trace[b] = [op |-> "handle", i |-> 2, res |-> "raise"]
        /\ trace[c] = [op |-> "handle", i |-> 3, res |-> "ok"]

\* C2: within one dispatch_event call the handlers are evaluated in
\* registration order; handles is called once per handler (never twice, and
\* once for each when the call has returned), handle at most once and only
\* right after that handler's handles returned true; nothing is called again
\* after a failure.
DispatchOrder ==
    /\ \A j, k \in 1..Len(trace) :
        j < k => /\ trace[j].i <= trace[k].i
                 /\ (trace[j].i = trace[k].i =>
                        trace[j].op = "handles" /\ trace[k].op = "handle")
    /\ \A k \in 1..Len(trace) :
        trace[k].op = "handle" =>
            k > 1 /\ trace[k - 1] = [op |-> "handles", i |-> trace[k].i, res |-> "true"]
    /\ \A k \in 1..Len(trace) :
        trace[k].res = "raise" => \A j \in (k + 1)..Len(trace) : trace[j].i > trace[k].i
    /\ dstatus = "returned" =>
        \A i \in 1..Len(features) :
            Cardinality({k \in 1..Len(trace) :
                            trace[k].op = "handles" /\ trace[k].i = i}) = 1

\* One dispatch in which a handler accepted and was handled, one declined
\* and one failed.
DispatchOrderWitness ==
    /\ dstatus = "returned"
    /\ trace = << [op |-> "handles", i |-> 1, res |-> "true"],
                  [op |-> "handle", i |-> 1, res |-> "ok"],
                  [op |-> "handles", i |-> 2, res |-> "false"],
                  [op |-> "handles", i |-> 3, res |-> "raise"] >>

\* ===================================================================
\* Properties of the deletion scheduler (checked under Spec)

\* The ids of the snapshot for which the current sweep has issued its delete
\* request: the for loop is at position idx, whose request is out unless the
\* loop is only about to make the call.
Issued == IF spc = "call" THEN 1..(idx - 1) ELSE 1..idx

SweepEnded == spc = "sleep"

\* C3: a schedule call made while a sweep is past its snapshot is not lost:
\* when that sweep has finished, the id is pending with the due time the
\* call wrote.
NoLostUpdate ==
    SweepEnded =>
        \A m \in MsgIds :
            wrote[m] # {} => InTable(tasks, m) /\ wrote[m] = {DueOf(tasks, m)}

\* C4: once a schedule call has overwritten the entry of an id with a later
\* due time, no delete request for that id goes out before that due time.
RescheduleCancels == ~early

\* C5: when a sweep has run to completion, every id that was due at its
\* snapshot and has not been scheduled again since its delete request is out
\* of the table, and exactly one delete request was issued for its entry.
SweepRemovesDue ==
    (SweepEnded /\ ~sweepRaised) =>
        \A i \in 1..Len(to_delete) :
            reqs[to_delete[i]] >= 1 =>
                ~InTable(tasks, to_delete[i]) /\ reqs[to_delete[i]] = 1

\* C6: an entry whose delete request failed, by a reported failure or by an
\* exception, is out of the table when that sweep ends (unless it was
\* scheduled again), and no later sweep issues a second request for it.
FailedEntryDropped ==
    /\ SweepEnded => \A m \in failed : ~InTable(tasks, m)
    /\ \A m \in MsgIds : reqs[m] <= 1

\* C7: a failed delete call does not abort the batch: when a sweep in which
\* a delete call failed ends, the delete request of every id of its snapshot
\* has been issued, and every id not scheduled again is out of the table.
BatchNotAborted ==
    (SweepEnded /\ (sweepRaised \/ failed # {})) =>
        \A i \in 1..Len(to_delete) :
            /\ i \in Issued
            /\ (to_delete[i] \notin failed /\ reqs[to_delete[i]] >= 1)
                    => ~InTable(tasks, to_delete[i])

\* C8: a failure raised during a sweep never ends the loop: run() is never
\* left, and after the failure it stands at its sleep or, the sleep over, at
\* the top of the loop, about to sweep again.
SweepLoopSurvives ==
    /\ spc \in {"run", "snap_acquire", "snap_locked", "call", "inflight",
                "pop_acquire", "pop_locked", "sleep"}
    /\ sweepRaised => spc \in {"sleep", "run"}

\* A sweep that follows a failed sweep has its delete request out.
SweepLoopSurvivesWitness == prevRaised /\ spc = "inflight"

\* C9: an entry written while a sweep was in progress stays in the table
\* until a delete request is issued for it, and a sweep whose snapshot holds
\* it issues that request.
MidSweepEntryKept ==
    /\ \A m \in MsgIds : (addedMid[m] /\ reqs[m] = 0) => InTable(tasks, m)
    /\ SweepEnded =>
        \A i \in 1..Len(to_delete) :
            (addedMid[to_delete[i]] /\ wrote[to_delete[i]] = {}) => i \in Issued

\* C10: for each schedule call at most one delete request is issued for the
\* entry it wrote.
AtMostOneRequest == \A m \in MsgIds : reqs[m] <= 1

\* C11: the table holds at most one entry per message id and the last write
\* wins: a schedule call for m leaves exactly one entry for m, whose due time
\* is the one this call computed, whatever entry m had before.
OneEntryPerId ==
    \A m \in MsgIds : Cardinality({i \in 1..Len(tasks) : tasks[i].message_id = m}) <= 1

LastWriteWins ==
    /\ []OneEntryPerId
    /\ [][\A m \in MsgIds, d \in Delays :
             schedule_deletion(m, d) =>
                 /\ Cardinality({i \in 1..Len(tasks') : tasks'[i].message_id = m}) = 1
                 /\ DueOf(tasks', m) = clock + d]_vars

\* An entry for m was overwritten by a second schedule call with a later due.
LastWriteWinsWitness ==
    \E m \in MsgIds : resched[m] /\ InTable(tasks, m) /\ DueOf(tasks, m) > 0

\* C12: every change of the task table, the write of schedule included, is
\* made while the lock is held.
TableWriteUnderGuard == [][tasks' # tasks => lock = "sweep"]_vars

\* C13: the lock is not held while a delete request is outstanding (nor
\* between the snapshot and the request, nor while waiting to re-enter), and
\* an entry leaves the table only in the second locked block, entered after
\* the request has returned.
GuardFreeDuringDelete ==
    /\ [](spc \in {"call", "inflight", "pop_acquire"} => lock = "free")
    /\ [][Len(tasks') < Len(tasks) =>
            (spc = "pop_locked" /\ lock = "sweep")]_vars

\* The delete call for the current id has returned and the lock is held again.
GuardFreeDuringDeleteWitness ==
    spc = "pop_locked" /\ lock = "sweep" /\ InTable(tasks, Cur)

\* C14: parse_message_event raises for no raw event, a "message" field that
\* is not a dict included, so dispatch_event never ends with an exception of
\* the parser.
ParserNeverRaises == dstatus # "raised"

\* The events the parser is to reject: the outer type is not "message", or
\* the nested message has a type that is neither "private" nor "stream".
NotAMessage(e) ==
    \/ Get(e, "type", NoneStr) # "message"
    \/ LET msg == Get(e, "message", <<>>) IN
       IsDict(msg) /\ Get(msg, "type", NoneStr) \notin {"private", "stream"}

\* C15: dispatching an event that is not a private or stream message is a
\* no-op: no handler's handles or handle is called, and neither the
\* dispatcher's handlers nor the scheduler change.
NonMessageIsNoOp ==
    [][\A e \in RawEvents :
         (dispatch_event(e) /\ NotAMessage(e)) =>
             /\ dstatus' = "skipped" /\ dpc' = "idle" /\ trace' = <<>> /\ logged' = {}
             /\ UNCHANGED <<features, fidx, msg_event, schedVars, histVars, botVars>>]_vars

\* Such an event was dispatched while handlers are registered.
NonMessageIsNoOpWitness == dstatus = "skipped" /\ features # <<>> /\ trace = <<>>

\* C16: a parsed MessageEvent has stream and topic both non-null exactly
\* when its message_type is "stream", and both null when it is "private".
StreamTopicIffStream ==
    msg_event # NoEvent =>
        /\ msg_event.message_type = "stream" <=>
               (msg_event.stream # NoneText /\ msg_event.topic # NoneText)
        /\ msg_event.message_type = "private" =>
               (msg_event.stream = NoneText /\ msg_event.topic = NoneText)

\* The calls a handler's handle makes in one step of the bot.
NewCalls ==
    IF dpc = "handle" THEN SubSeq(effects', Len(effects) + 1, Len(effects')) ELSE <<>>

Running(f) == dpc = "handle" /\ features[fidx] = f

\* C17: a message goes to the target stream only while Anonymous Posting
\* handles a private message whose trimmed, lower-cased content is "send"
\* from a sender with a pending entry; it goes to the configured stream and
\* its text is the prefix followed by the pending entry's original content,
\* not the content of the reply.
AnonPostOnlyOnSend ==
    [][\A i \in DOMAIN NewCalls :
         NewCalls[i].op = "send_stream_message" =>
             /\ Running("anon")
             /\ msg_event.message_type = "private"
             /\ lower(strip(msg_event.content)) = SEND
             /\ pending[msg_event.sender_id] # NoPending
             /\ NewCalls[i].content
                    = ANON_PREFIX \o pending[msg_event.sender_id].original_content
             /\ NewCalls[i].stream
                    = Get(config.anonymous_posting, "target_stream", ANONYMOUS)]_vars

\* An anonymous copy was posted whose text differs from the reply's.
AnonPostOnlyOnSendWitness ==
    \E i \in DOMAIN effects :
        /\ effects[i].op = "send_stream_message" /\ effects[i].res = "id"
        /\ effects[i].content = ANON_PREFIX \o <<"h", "i", " ">>

\* A step in which Anonymous Posting handles a SEND reply from a sender with
\* a pending entry.
ConfirmedPost ==
    /\ Running("anon")
    /\ pending[msg_event.sender_id] # NoPending
    /\ lower(strip(msg_event.content)) = SEND

NewSchedules == SelectSeq(NewCalls, LAMBDA c : c.op = "schedule_deletion")

\* C18, as stated: every confirmed post makes exactly three schedule calls.
ThreeScheduleCalls == [][ConfirmedPost => Len(NewSchedules) = 3]_vars

\* C18: a confirmed post whose stream send returned a message id makes
\* exactly three schedule calls: the anonymous copy with the configured
\* delete_after_minutes, then the original DM and the SEND reply with 1
\* minute each.  When the send returned None it makes only the two calls
\* for the DMs, and when the send raised it makes none.
ConfirmedPostSchedules ==
    [][ConfirmedPost =>
         LET p == pending[msg_event.sender_id]
             dms == <<ScheduleCall(p.original_message_id, 1), ScheduleCall(msg_event.id, 1)>>
             copy == ScheduleCall(next_id,
                                  Get(config.anonymous_posting, "delete_after_minutes",
                                      DELETE_AFTER_MINUTES))
             res == NewCalls[1].res
         IN
         /\ NewCalls[1].op = "send_stream_message"
         /\ res = "id" => NewSchedules = <<copy>> \o dms
         /\ res = "none" => NewSchedules = dms
         /\ res = "raise" => NewSchedules = <<>>]_vars

\* A confirmed post was handled and made its three schedule calls, the
\* first with a delay other than the DMs'.
ConfirmedPostSchedulesWitness ==
    /\ CountOf(effects, "schedule_deletion") = 3
    /\ \E i \in DOMAIN effects :
           effects[i].op = "schedule_deletion" /\ effects[i].delete_after_minutes # 1

\* The configuration changes, or config_mgr.update is called, in this step.
ConfigChanges ==
    \/ config' # config
    \/ \E i \in DOMAIN NewCalls : NewCalls[i].op = "update"

ByAdmin == looked \in Users /\ (looked.is_admin \/ looked.is_owner)

SubscribeOnlyOnMatch ==
    [][\A i \in DOMAIN NewCalls :
         NewCalls[i].op = "add_user_subscriptions" =>
             /\ Running("access")
             /\ Get(config.private_access, "enabled", FALSE)
             /\ msg_event.message_type = "stream"
             /\ NewCalls[i].user_id = msg_event.sender_id
             /\ LET rules == Get(config.private_access, "watch_rules", <<>>) IN
                \E j \in DOMAIN rules :
                    /\ Get(rules[j], "stream", NoneText) = msg_event.stream
                    /\ Get(rules[j], "topic", NoneText) = msg_event.topic
                    /\ lower(strip(Get(rules[j], "phrase", NoneText)))
                           = lower(strip(msg_event.content))
                    /\ Get(rules[j], "target_stream", NoneText) = NewCalls[i].stream
             /\ NewCalls[i].res = "returned" =>
                    (i < Len(NewCalls) /\ NewCalls[i + 1] = React(msg_event.id))]_vars

\* A sender was subscribed and the message got its reaction.
SubscribeOnlyOnMatchWitness ==
    \E i \in DOMAIN effects :
        /\ effects[i].op = "add_user_subscriptions" /\ effects[i].res = "returned"
        /\ i < Len(effects) /\ effects[i + 1].op = "react_to_message"

\* The handler a call of the trace was made on.
HandlerOf(k) == features[trace[k].i]

\* C21: the handlers are registered admin first, so for every dispatched
\* event whatever is evaluated on Anonymous Posting or Private Access comes
\* after Admin Controls' handles, after its handle when handles accepted,
\* and no call on Admin Controls comes later.
AdminFirst ==
    \A k \in DOMAIN trace :
        HandlerOf(k) # "admin" =>
            /\ \E j \in 1..(k - 1) : HandlerOf(j) = "admin" /\ trace[j].op = "handles"
            /\ \A j \in 1..(k - 1) :
                   (HandlerOf(j) = "admin" /\ trace[j].op = "handles" /\ trace[j].res = "true")
                       => \E h \in (j + 1)..(k - 1) :
                              HandlerOf(h) = "admin" /\ trace[h].op = "handle"
            /\ \A j \in (k + 1)..Len(trace) : HandlerOf(j) # "admin"

\* Admin Controls accepted and handled the event, and the two other
\* handlers were evaluated after it.
AdminFirstWitness ==
    /\ Len(trace) >= 4
    /\ HandlerOf(1) = "admin" /\ trace[1].res = "true"
    /\ HandlerOf(2) = "admin" /\ trace[2].op = "handle"
    /\ HandlerOf(3) = "anon" /\ HandlerOf(Len(trace)) = "access"

\* A private or stream message event that carries no content field.
LacksContent(e) ==
    /\ Get(e, "type", NoneStr) = "message"
    /\ LET msg == Get(e, "message", <<>>) IN
       /\ IsDict(msg)
       /\ Get(msg, "type", NoneStr) \in {"private", "stream"}
       /\ "content" \notin DOMAIN msg

\* C22: a private or stream message event whose content field is missing
\* parses to a MessageEvent whose content is the empty string, not none
\* and not an error; the event the handlers are given carries that content.
MissingContentIsEmpty ==
    /\ \A e \in RawEvents :
           LacksContent(e) =>
               /\ parse_message_event(e) \notin {NoEvent, ParseRaises}
               /\ parse_message_event(e).content = <<>>
    /\ (msg_event # NoEvent /\ LacksContent(msg_event.raw_event)) =>
           (msg_event.content = <<>> /\ dstatus # "raised")

\* Such an event was parsed and handed to a handler.
MissingContentIsEmptyWitness ==
    /\ msg_event # NoEvent
    /\ LacksContent(msg_event.raw_event)
    /\ trace # <<>>

\* C23: in every reachable state each entry of the scheduler's table holds
\* only a message id and a due time and is stored under the key equal to
\* its own message id; no message content enters the table.
EntriesHoldIdAndTime ==
    \A k \in DOMAIN tasks :
        /\ DOMAIN tasks[k] = {"message_id", "delete_at"}
        /\ tasks[k].message_id \in Int
        /\ tasks[k].delete_at \in Int
        /\ InTable(tasks, tasks[k].message_id)
        /\ IndexOf(tasks, tasks[k].message_id) = k

\* A confirmed post went through: its content was sent to the stream and
\* its three deletions are in the table.
EntriesHoldIdAndTimeWitness ==
    /\ Len(tasks) >= 3
    /\ \E i \in DOMAIN effects :
           effects[i].op = "send_stream_message" /\ effects[i].content # <<>>

\* Anonymous Posting is about to handle a message of a sender who has a
\* pending entry.
PendingReply == Running("anon") /\ pending[msg_event.sender_id] # NoPending

\* C24: the pending state holds at most one entry per sender, and a private
\* message handled from a sender who has a pending entry removes that entry
\* whatever its content: after SEND, CANCEL or any other input the sender
\* has no pending entry, no entry is registered for the input, and the
\* other senders' entries stay.
PendingReplyConsumes ==
    /\ [](\A u \in UserIds :
             pending[u] # NoPending =>
                 DOMAIN pending[u] = {"original_message_id", "original_content"})
    /\ [][PendingReply =>
              /\ pending'[msg_event.sender_id] = NoPending
              /\ \A u \in UserIds \ {msg_event.sender_id} : pending'[u] = pending[u]]_vars

\* An input that is neither SEND nor CANCEL was answered and the sender's
\* entry is gone.
PendingReplyConsumesWitness ==
    /\ msg_event # NoEvent
    /\ \E i \in DOMAIN effects :
           /\ effects[i] = SendPrivate(msg_event.sender_id, "unknown input")
           /\ pending[msg_event.sender_id] = NoPending

\* C25: a CANCEL reply from a sender with a pending entry sends no stream
\* message, schedules deletion of exactly the original DM and the CANCEL
\* reply, one minute from now each, and leaves the sender without a pending
\* entry.
CancelSchedulesBoth ==
    [][(PendingReply /\ lower(strip(msg_event.content)) = CANCEL) =>
           LET p == pending[msg_event.sender_id] IN
           /\ \A i \in DOMAIN NewCalls : NewCalls[i].op # "send_stream_message"
           /\ NewSchedules = <<ScheduleCall(p.original_message_id, 1),
                               ScheduleCall(msg_event.id, 1)>>
           /\ DueOf(tasks', p.original_message_id) = clock + 1
           /\ DueOf(tasks', msg_event.id) = clock + 1
           /\ pending'[msg_event.sender_id] = NoPending]_vars

\* A CANCEL reply was handled.
CancelSchedulesBothWitness ==
    /\ msg_event # NoEvent
    /\ \E i \in DOMAIN effects : effects[i] = SendPrivate(msg_event.sender_id, "not posted")
    /\ pending[msg_event.sender_id] = NoPending
    /\ Len(tasks) >= 2

\* C26: each iteration of the run loop sleeps the 60-unit interval before
\* it sweeps, so no delete request is issued before the first sleep after
\* startup has elapsed: while the clock is short of one sleep interval no
\* request has gone out.
SleepBeforeSweep ==
    clock < SleepMinutes => \A m \in MsgIds : reqs[m] = 0

\* C27: the cursor last_event_id never decreases; once an event with id i
\* has been yielded the cursor, which every later poll is made with, is at
\* least i; and the events yielded from one batch are the batch's events in
\* the order the batch lists them.
CursorMonotone ==
    /\ [](\A i \in seen : last_event_id >= i)
    /\ [](/\ Len(yielded) <= Len(batch)
          /\ yielded = SubSeq(batch, 1, Len(yielded))
          /\ epc = "yield" => Len(yielded) = bidx)
    /\ [][last_event_id' >= last_event_id]_vars

\* A batch that lists a later event first was yielded in its own order.
CursorMonotoneWitness ==
    /\ epc = "yield"
    /\ yielded = <<[id |-> 2], [id |-> 1]>>
    /\ last_event_id = 2

\* The response of the latest poll is a success.
PollSucceeded(res) ==
    /\ res # PollRaised
    /\ Get(res, "result", NoneStr) = "success"
    /\ Get(res, "code", NoneStr) # "RATE_LIMIT_HIT"

\* C28: the event source never terminates and never yields an event from a
\* failed poll: on a rate-limit response, another non-success response or
\* an exception of the poll it sleeps with the cursor unchanged and nothing
\* yielded, and polls again when the sleep is over.
FailedPollBacksOff ==
    /\ [](epc \in {"poll", "for", "yield", "sleep"})
    /\ [](epc \in {"for", "yield"} => PollSucceeded(poll_res))
    /\ [][(epc = "poll" /\ npolls' = npolls + 1 /\ ~PollSucceeded(poll_res')) =>
              /\ epc' = "sleep"
              /\ last_event_id' = last_event_id
              /\ yielded' = <<>> /\ seen' = seen]_vars
    /\ [][epc = "sleep" =>
              /\ epc' = "poll"
              /\ last_event_id' = last_event_id /\ seen' = seen]_vars

\* After events were yielded a poll raised, and the source is in its
\* back-off with the events it yielded before.
FailedPollBacksOffWitness ==
    /\ epc = "sleep"
    /\ seen # {}
    /\ poll_res = PollRaised
    /\ backoff = EXCEPTION_BACKOFF

IsRateLimitHit(res) == res # SendRaised /\ Get(res, "code", NoneStr) = "RATE_LIMIT_HIT"

\* What holds of a send call at every moment: at most max_retries attempts
\* were made, each attempt but the latest was answered by a rate-limit hit,
\* and the call returned the id of a successful response, or none after
\* another error response or the third rate-limit hit.
SendBounded ==
    /\ Len(snd_hist) <= max_retries
    /\ \A k \in 1..(Len(snd_hist) - 1) : IsRateLimitHit(snd_hist[k])
    /\ snd_pc = "call" => (Len(snd_hist) = attempt /\ attempt < max_retries)
    /\ snd_pc = "sleep" =>
           /\ Len(snd_hist) = attempt + 1 /\ attempt < max_retries - 1
           /\ IsRateLimitHit(snd_hist[Len(snd_hist)])
    /\ snd_pc = "returned" =>
           LET last == snd_hist[Len(snd_hist)] IN
           IF IsRateLimitHit(last)
           THEN Len(snd_hist) = max_retries /\ snd_ret = NoneInt
           ELSE IF last.result = "success" THEN snd_ret = last.id
           ELSE snd_ret = NoneInt

SequentialDispatch ==
    /\ [][(\E e \in BotEvents(next_id) : dispatch_event(e)) =>
              /\ dpc = "idle"
              /\ dstatus \in {"none", "returned", "skipped"}
              /\ dstatus = "returned" => Evaluated = 1..Len(features)]_vars
    /\ [][effects' # effects =>
              \/ dpc = "idle" /\ effects' = <<>>
              \/ /\ dpc = "handle" /\ dstatus = "running" /\ msg_event # NoEvent
                 /\ Len(effects') > Len(effects)
                 /\ SubSeq(effects', 1, Len(effects)) = effects]_vars
    /\ [][nsched' # nsched => (dpc = "handle" /\ NewSchedules # <<>>)]_vars

\* A second event was dispatched after the first one had returned, and its
\* handlers made schedule calls.
SequentialDispatchWitness ==
    /\ dstatus = "returned"
    /\ Evaluated = 1..Len(features)
    /\ \E i \in DOMAIN effects :
           effects[i].op = "schedule_deletion" /\ effects[i].message_id = 1
    /\ \E i \in DOMAIN effects :
           effects[i].op = "schedule_deletion" /\ effects[i].message_id = 2

\* Admin Controls' handles accepted the current event: a private message
\* that starts with "!" from an admin or owner.
AdminAccepted ==
    \E k \in DOMAIN trace :
        HandlerOf(k) = "admin" /\ trace[k].op = "handles" /\ trace[k].res = "true"

AnonEnabled == Get(Get(config, "anonymous_posting", <<>>), "enabled", FALSE)

AnonCalled(op) == \E k \in DOMAIN trace : HandlerOf(k) = "anon" /\ trace[k].op = op

\* C31: a private message that starts with "!" from an admin, received
\* while anonymous posting is enabled, is handled by Admin Controls and by
\* Anonymous Posting in the same dispatch: the dispatcher goes on after a
\* handler that accepted, Anonymous Posting accepts the command, and its
\* handle registers the command text as the admin's pending entry, or
\* consumes the entry the admin had.
AdminCommandAlsoAnon ==
    /\ []((AdminAccepted /\ AnonEnabled /\ dstatus = "returned") =>
              (AnonCalled("handles") /\ AnonCalled("handle")))
    /\ [][(dpc = "handles" /\ features[fidx] = "anon" /\ AdminAccepted /\ AnonEnabled) =>
              dpc' = "handle"]_vars
    /\ [][(Running("anon") /\ AdminAccepted) =>
              LET s == msg_event.sender_id IN
              IF pending[s] = NoPending
              THEN pending'[s] = PendingAnon(msg_event.id, msg_event.content)
              ELSE pending'[s] = NoPending]_vars

\* An admin's command went through both handlers and is now the admin's
\* pending anonymous post.
AdminCommandAlsoAnonWitness ==
    /\ dstatus = "returned"
    /\ AdminAccepted
    /\ AnonCalled("handle")
    /\ \E u \in UserIds :
           /\ pending[u] # NoPending
           /\ startswith(strip(pending[u].original_content), BANG)

\* The stream send of the confirmed post being handled returns none.
StreamSendFailed ==
    /\ ConfirmedPost
    /\ NewCalls # <<>>
    /\ NewCalls[1].op = "send_stream_message"
    /\ NewCalls[1].res = "none"

\* C32: when the stream send of a confirmed post returns none, no deletion
\* is scheduled for an anonymous copy, the pending entry is still removed,
\* the original DM and the SEND reply are still scheduled for deletion, and
\* the sender is still sent the "posted anonymously" message.
FailedSendStillConfirms ==
    [][StreamSendFailed =>
           LET s == msg_event.sender_id
               p == pending[s]
           IN
           /\ NewSchedules = <<ScheduleCall(p.original_message_id, 1),
                               ScheduleCall(msg_event.id, 1)>>
           /\ Keys(tasks') = Keys(tasks) \cup {p.original_message_id, msg_event.id}
           /\ pending'[s] = NoPending
           /\ NewCalls[Len(NewCalls)] = SendPrivate(s, "posted anonymously")
           /\ next_id' = next_id]_vars

\* Such a post was handled: the send gave none and the sender was told the
\* message was posted.
FailedSendStillConfirmsWitness ==
    /\ Len(effects) >= 2
    /\ effects[1].op = "send_stream_message" /\ effects[1].res = "none"
    /\ effects[Len(effects)].op = "send_private_message"
    /\ effects[Len(effects)].text = "posted anonymously"
    /\ Len(tasks) = 2

\* The sender addresses and message ids a second run may have instead.
OtherEmails == {"user@example.org", "other@example.org"}
OtherIds == 1..(MaxId + 2)

\* The stream message Anonymous Posting sends for a SEND reply.
Posted(event, pend, nid, res) == anon_handle(event, config, pend, nid, res).calls[1]

\* C33: anonymity of the posted copy.  For a second run that differs from
\* this one only in the sender's id and email and in the message ids, the
\* stream, the topic and the text of the anonymous stream message are the
\* same: they are determined by the pending original content and the
\* configuration.
AnonymousCopy ==
    /\ [](ConfirmedPost =>
            \A u2 \in UserIds, email2 \in OtherEmails, id2 \in OtherIds,
               oid2 \in OtherIds, nid2 \in OtherIds, res \in {"id", "none"} :
                LET s == msg_event.sender_id
                    e2 == [msg_event EXCEPT !.sender_id = u2, !.sender_email = email2,
                                            !.id = id2]
                    pend2 == [u \in UserIds |->
                                 IF u = u2
                                 THEN PendingAnon(oid2, pending[s].original_content)
                                 ELSE NoPending]
                    c1 == Posted(msg_event, pending, next_id, res)
                    c2 == Posted(e2, pend2, nid2, res)
                IN
                /\ c1.op = "send_stream_message" /\ c2.op = "send_stream_message"
                /\ c1.stream = c2.stream
                /\ c1.topic = c2.topic
                /\ c1.content = c2.content)
    /\ [][ConfirmedPost =>
              \E res \in StreamSendResults :
                  NewCalls[1] = Posted(msg_event, pending, next_id, res)]_vars

\* A confirmed post of a non-empty original went to the stream.
AnonymousCopyWitness ==
    /\ effects # <<>>
    /\ effects[1].op = "send_stream_message"
    /\ effects[1].res = "id"
    /\ Len(effects[1].content) > Len(ANON_PREFIX)

\* The ids of the sweep's snapshot.
Snapshotted == {to_delete[i] : i \in 1..Len(to_delete)}

\* A step of the sweep loop, as opposed to a schedule call or the clock.
SweepStep == spc' # spc

\* C34: a sweep leaves every entry that was not due at its snapshot
\* unchanged: the snapshot does not take it, and no step of the sweep
\* issues a delete request for it, removes it or alters its due time.
SweepFrame ==
    /\ [][(spc = "snap_locked" /\ SweepStep) =>
              /\ tasks' = tasks
              /\ \A m \in Keys(tasks) :
                     DueOf(tasks, m) > now =>
                         \A i \in 1..Len(to_delete') : to_delete'[i] # m]_vars
    /\ [][(SweepInProgress /\ SweepStep) =>
              \A m \in Keys(tasks) \ Snapshotted :
                  /\ InTable(tasks', m)
                  /\ DueOf(tasks', m) = DueOf(tasks, m)
                  /\ reqs'[m] = reqs[m]]_vars

\* A sweep deleted what was due and has ended; an entry that was in the
\* table at its snapshot and not due then is still there with no request.
SweepFrameWitness ==
    /\ spc = "sleep"
    /\ to_delete # <<>>
    /\ \E m \in Keys(tasks) :
           /\ DueOf(tasks, m) > now
           /\ ~addedMid[m]
           /\ reqs[m] = 0
           /\ m \notin Snapshotted

====
